---- MODULE Spec2Model ----
(***************************************************************************)
(* State-machine model of backend/server.py: the document store behind the *)
(* HTTP handlers (users, subscriptions, bot_configs), the ConnectionManager *)
(* of the websocket endpoint, the mock coin snapshot and the EMA crossover  *)
(* signal function.                                                         *)
(***************************************************************************)
EXTENDS Integers, Sequences, FiniteSets, TLC

VARIABLES
    users_collection,          \* db.users: documents in insertion order
    subscriptions_collection,  \* db.subscriptions
    bot_configs_collection,    \* db.bot_configs
    now,                       \* the wall clock read by datetime.utcnow()
    call,                      \* the HTTP request being answered
    resp,                      \* its response
    active_connections,        \* manager.active_connections: a list of websockets
    transport,                 \* per websocket: "none", "open" or "closed" by the peer
    wpc,                       \* per websocket: where its websocket_endpoint task is
    bpc,                       \* where the task running manager.broadcast is
    bIdx,                      \* the position of broadcast's list iterator
    bCur,                      \* the connection broadcast is sending to
    bStart,                    \* the connections registered when broadcast began
    bRemoved,                  \* the connections removed since broadcast began
    bDelivered,                \* the connections broadcast's send_text reached
    bFailed,                   \* the connections broadcast's send_text raised for
    wire,                      \* the coin snapshot on its way to a client
    sigIn,                     \* the arguments of a get_trading_signal call
    sigOut,                    \* what the call returned
    lastTick,                  \* per websocket: the coin list its client received last
    emaIn,                     \* the arguments of a calculate_ema call
    emaOut                     \* what the call returned

apiVars == <<users_collection, subscriptions_collection, bot_configs_collection,
             now, call, resp>>

wsVars == <<active_connections, transport, wpc, bpc, bIdx, bCur, bStart, bRemoved,
            bDelivered, bFailed>>

coinVars == <<wire>>

sigVars == <<sigIn, sigOut>>

tickVars == <<lastTick>>

emaVars == <<emaIn, emaOut>>

vars == <<apiVars, wsVars, coinVars, sigVars, tickVars, emaVars>>

nonApiVars == <<wsVars, coinVars, sigVars, tickVars, emaVars>>
nonWsVars == <<apiVars, coinVars, sigVars, tickVars, emaVars>>
nonCoinVars == <<apiVars, wsVars, sigVars, tickVars, emaVars>>
nonSigVars == <<apiVars, wsVars, coinVars, tickVars, emaVars>>
nonTickVars == <<apiVars, wsVars, sigVars, emaVars>>
nonEmaVars == <<apiVars, wsVars, coinVars, sigVars, tickVars>>

----------------------------------------------------------------------------
(* Bounds of the model *)

MaxTime == 1         \* last reading of the clock (the first is 1)
MaxConns == 3        \* websockets that connect
MaxEma == 2          \* largest EMA value passed to get_trading_signal
MaxVarying == 2      \* symbols whose EMA factors differ from one tick to the next
MaxPrice == 3        \* largest price in a price history
MaxLen == 3          \* longest price history

Emails == {"a@x.io", "b@x.io"}       \* the addresses clients use
Passwords == {"pw1", "pw2"}          \* the passwords clients use
DaySet == {0 - 1, 1}                 \* the days parameter of update_subscription
ApiKeys == {"key"}

----------------------------------------------------------------------------
(* Values *)

NoneTime == -1       \* "expires_at": None
NoneStr == "None"    \* "api_key": None

\* class BotConfig: field defaults; floats are kept in tenths
BotConfig == [symbol |-> "BTCUSDT", timeframe |-> "1m", leverage |-> 1,
              take_profit |-> 20, stop_loss |-> 10, position_size |-> 100]

\* the request bodies clients send to PUT /api/bot/config
ConfigSet == {BotConfig,
              [symbol |-> "ETHUSDT", timeframe |-> "5m", leverage |-> 5,
               take_profit |-> 35, stop_loss |-> 15, position_size |-> 250]}

ConfigFields == {"symbol", "timeframe", "leverage", "take_profit", "stop_loss",
                 "position_size"}

\* bcrypt: a salted digest of the password, never the password itself
hash_password(password) == [alg |-> "bcrypt", digest |-> password]

verify_password(password, hashed_password) ==
    hashed_password.alg = "bcrypt" /\ hashed_password.digest = password

----------------------------------------------------------------------------
(* The document store (pymongo).  A collection is the set of its documents: *)
(* the handlers only ever look documents up by a key.                       *)

None == [none |-> TRUE]

\* collection.find({field: value})
find(coll, field, value) ==
    {doc \in coll : field \in DOMAIN doc /\ doc[field] = value}

\* collection.find_one({field: value})
find_one(coll, field, value) ==
    IF find(coll, field, value) = {} THEN None
    ELSE CHOOSE doc \in find(coll, field, value) : TRUE

\* {"$set": fields} applied to one document
SetFields(doc, fields) ==
    [k \in DOMAIN doc \cup DOMAIN fields |->
        IF k \in DOMAIN fields THEN fields[k] ELSE doc[k]]

\* collection.update_one({"user_id": uid}, {"$set": fields}, upsert=upsert)
update_one(coll, uid, fields, upsert) ==
    LET doc == find_one(coll, "user_id", uid)
    IN  IF doc # None THEN (coll \ {doc}) \cup {SetFields(doc, fields)}
        ELSE IF upsert THEN coll \cup {SetFields([user_id |-> uid], fields)}
        ELSE coll

\* dict.get(key, default)
Get(doc, key, default) == IF key \in DOMAIN doc THEN doc[key] ELSE default

----------------------------------------------------------------------------
(* Requests and responses *)

Rsp(status, detail) == [status |-> status, detail |-> detail]
RspBody(body) == [status |-> 200, detail |-> "", body |-> body]

\* a bearer token names its user in "sub"; the tokens in circulation are those
\* register and login hand out, and BadToken, which does not decode
BadToken == 0
Tokens == {doc.user_id : doc \in users_collection}

\* the dependency get_current_user of every protected route
get_current_user(token) ==
    IF token = BadToken THEN None ELSE find_one(users_collection, "user_id", token)

\* subscription.get("is_active") of the user's subscription document, if any
SubscriptionActive(uid) ==
    LET subscription == find_one(subscriptions_collection, "user_id", uid)
    IN  subscription # None /\ Get(subscription, "is_active", FALSE)

\* the admin account a deployment seeds directly in the store
AdminDoc == [user_id |-> 1, email |-> "a@x.io", name |-> "admin",
             password |-> hash_password("pw1"), created_at |-> 1,
             is_admin |-> TRUE, api_key |-> NoneStr, api_secret |-> NoneStr]

ApiInit ==
    /\ users_collection \in {{}, {AdminDoc}}
    /\ subscriptions_collection = {}
    /\ bot_configs_collection = {}
    /\ now = 1
    /\ call = [op |-> "none"]
    /\ resp = Rsp(0, "")

\* the server handles one request at a time: a handler runs to its return
\* without awaiting (the pymongo calls are synchronous)
Idle == call.op = "none"

\* the response leaves the server
respond ==
    /\ ~Idle
    /\ UNCHANGED nonApiVars
    /\ call' = [op |-> "none"]
    /\ resp' = Rsp(0, "")
    /\ UNCHANGED <<users_collection, subscriptions_collection,
                   bot_configs_collection, now>>

\* a protected route called with a token get_current_user refuses: the route's
\* handler never runs
unauthorized ==
    /\ get_current_user(BadToken) = None
    /\ Idle
    /\ UNCHANGED nonApiVars
    /\ call' = [op |-> "unauthorized", token |-> BadToken]
    /\ resp' = Rsp(401, "Invalid token")
    /\ UNCHANGED <<users_collection, subscriptions_collection,
                   bot_configs_collection, now>>

\* register without its look-up of the e-mail
register_unchecked(email, password) ==
    /\ Idle
    /\ UNCHANGED nonApiVars
    /\ call' = [op |-> "register", email |-> email, password |-> password]
    /\ Cardinality(users_collection) <= Cardinality(Emails)
    /\ LET user_id == Cardinality(users_collection) + 1
       IN  /\ users_collection' = users_collection \cup
                 {[user_id |-> user_id, email |-> email, name |-> "name",
                   password |-> hash_password(password), created_at |-> now,
                   is_admin |-> FALSE, api_key |-> NoneStr, api_secret |-> NoneStr]}
           /\ subscriptions_collection' = subscriptions_collection \cup
                 {[user_id |-> user_id, is_active |-> FALSE,
                   expires_at |-> NoneTime, created_at |-> now]}
           /\ resp' = RspBody([access_token |-> user_id, user_id |-> user_id,
                               email |-> email, name |-> "name"])
    /\ UNCHANGED <<bot_configs_collection, now>>

\* register storing the new user with is_admin True
register_as_admin(email, password) ==
    /\ Idle
    /\ UNCHANGED nonApiVars
    /\ call' = [op |-> "register", email |-> email, password |-> password]
    /\ IF find_one(users_collection, "email", email) # None
       THEN /\ resp' = Rsp(400, "User already exists")
            /\ UNCHANGED <<users_collection, subscriptions_collection>>
       ELSE LET user_id == Cardinality(users_collection) + 1
            IN  /\ users_collection' = users_collection \cup
                      {[user_id |-> user_id, email |-> email, name |-> "name",
                        password |-> hash_password(password), created_at |-> now,
                        is_admin |-> TRUE, api_key |-> NoneStr,
                        api_secret |-> NoneStr]}
                /\ subscriptions_collection' = subscriptions_collection \cup
                      {[user_id |-> user_id, is_active |-> FALSE,
                        expires_at |-> NoneTime, created_at |-> now]}
                /\ resp' = RspBody([access_token |-> user_id, user_id |-> user_id,
                                    email |-> email, name |-> "name"])
    /\ UNCHANGED <<bot_configs_collection, now>>

\* POST /api/register
register(email, password) ==
    /\ Idle
    /\ UNCHANGED nonApiVars
    /\ call' = [op |-> "register", email |-> email, password |-> password]
    /\ IF find_one(users_collection, "email", email) # None
       THEN /\ resp' = Rsp(400, "User already exists")
            /\ UNCHANGED <<users_collection, subscriptions_collection, now>>
       ELSE /\ \E t1 \in now..MaxTime : \E t2 \in t1..MaxTime :
                 LET user_id == Cardinality(users_collection) + 1
                 IN  /\ users_collection' = users_collection \cup
                           {[user_id |-> user_id, email |-> email, name |-> "name",
                             password |-> hash_password(password), created_at |-> t1,
                             is_admin |-> FALSE, api_key |-> NoneStr,
                             api_secret |-> NoneStr]}
                     /\ subscriptions_collection' = subscriptions_collection \cup
                           {[user_id |-> user_id, is_active |-> FALSE,
                             expires_at |-> NoneTime, created_at |-> t2]}
                     /\ now' = t2
                     /\ resp' = RspBody([access_token |-> user_id, user_id |-> user_id,
                                         email |-> email, name |-> "name"])
    /\ UNCHANGED bot_configs_collection

\* POST /api/login: the response
login_response(email, password) ==
    LET db_user == find_one(users_collection, "email", email)
    IN  IF db_user = None \/ ~verify_password(password, db_user.password)
        THEN Rsp(401, "Invalid credentials")
        ELSE RspBody([access_token |-> db_user.user_id,
                      user_id |-> db_user.user_id,
                      email |-> db_user.email,
                      name |-> db_user.name])

\* POST /api/login
login(email, password) ==
    /\ Idle
    /\ UNCHANGED nonApiVars
    /\ call' = [op |-> "login", email |-> email, password |-> password]
    /\ resp' = login_response(email, password)
    /\ UNCHANGED <<users_collection, subscriptions_collection,
                   bot_configs_collection, now>>

\* GET /api/user/profile
get_profile(token) ==
    LET current_user == get_current_user(token)
        subscription == find_one(subscriptions_collection, "user_id", token)
    IN  /\ current_user # None
        /\ Idle
        /\ UNCHANGED nonApiVars
        /\ call' = [op |-> "get_profile", token |-> token]
        /\ resp' = RspBody(
              [user_id |-> current_user.user_id,
               email |-> current_user.email,
               name |-> current_user.name,
               is_admin |-> Get(current_user, "is_admin", FALSE),
               has_api_key |-> Get(current_user, "api_key", NoneStr) # NoneStr,
               subscription |->
                  [is_active |-> IF subscription # None
                                 THEN Get(subscription, "is_active", FALSE)
                                 ELSE FALSE,
                   expires_at |-> IF subscription # None
                                  THEN Get(subscription, "expires_at", NoneTime)
                                  ELSE NoneTime]])
        /\ UNCHANGED <<users_collection, subscriptions_collection,
                       bot_configs_collection, now>>

\* PUT /api/user/api-key
update_api_key(token, api_key) ==
    LET current_user == get_current_user(token)
    IN  /\ current_user # None
        /\ Idle
        /\ UNCHANGED nonApiVars
        /\ call' = [op |-> "update_api_key", token |-> token, api_key |-> api_key]
        /\ \E t \in now..MaxTime :
              /\ users_collection' = update_one(users_collection,
                     current_user.user_id,
                     [api_key |-> api_key, api_secret |-> api_key, updated_at |-> t],
                     FALSE)
              /\ now' = t
        /\ resp' = Rsp(200, "API keys updated successfully")
        /\ UNCHANGED <<subscriptions_collection, bot_configs_collection>>

\* the body GET /api/bot/config returns to user uid
bot_config_body(uid) ==
    LET config == find_one(bot_configs_collection, "user_id", uid)
    IN  IF config = None THEN BotConfig
        ELSE [symbol |-> Get(config, "symbol", "BTCUSDT"),
              timeframe |-> Get(config, "timeframe", "1m"),
              leverage |-> Get(config, "leverage", 1),
              take_profit |-> Get(config, "take_profit", 20),
              stop_loss |-> Get(config, "stop_loss", 10),
              position_size |-> Get(config, "position_size", 100),
              is_active |-> Get(config, "is_active", FALSE)]

\* GET /api/bot/config
get_bot_config(token) ==
    LET current_user == get_current_user(token)
    IN  /\ current_user # None
        /\ Idle
        /\ UNCHANGED nonApiVars
        /\ call' = [op |-> "get_bot_config", token |-> token]
        /\ resp' = RspBody(bot_config_body(current_user.user_id))
        /\ UNCHANGED <<users_collection, subscriptions_collection,
                       bot_configs_collection, now>>

\* update_bot_config without upsert=True
update_bot_config_no_upsert(token, config) ==
    LET current_user == get_current_user(token)
    IN  /\ current_user # None
        /\ Idle
        /\ UNCHANGED nonApiVars
        /\ call' = [op |-> "update_bot_config", token |-> token, config |-> config]
        /\ bot_configs_collection' = update_one(bot_configs_collection,
               current_user.user_id,
               SetFields(config, [user_id |-> current_user.user_id,
                                  updated_at |-> now]),
               FALSE)
        /\ resp' = Rsp(200, "Bot configuration updated successfully")
        /\ UNCHANGED <<users_collection, subscriptions_collection, now>>

\* update_bot_config replacing the stored document by the new configuration
update_bot_config_replace(token, config) ==
    LET current_user == get_current_user(token)
    IN  /\ current_user # None
        /\ Idle
        /\ UNCHANGED nonApiVars
        /\ call' = [op |-> "update_bot_config", token |-> token, config |-> config]
        /\ bot_configs_collection' =
              {doc \in bot_configs_collection : doc.user_id # current_user.user_id}
                  \cup {SetFields(config, [user_id |-> current_user.user_id,
                                           updated_at |-> now])}
        /\ resp' = Rsp(200, "Bot configuration updated successfully")
        /\ UNCHANGED <<users_collection, subscriptions_collection, now>>

\* PUT /api/bot/config
update_bot_config(token, config) ==
    LET current_user == get_current_user(token)
    IN  /\ current_user # None
        /\ Idle
        /\ UNCHANGED nonApiVars
        /\ call' = [op |-> "update_bot_config", token |-> token, config |-> config]
        /\ \E t \in now..MaxTime :
              /\ bot_configs_collection' = update_one(bot_configs_collection,
                     current_user.user_id,
                     SetFields(config, [user_id |-> current_user.user_id,
                                        updated_at |-> t]),
                     TRUE)
              /\ now' = t
        /\ resp' = Rsp(200, "Bot configuration updated successfully")
        /\ UNCHANGED <<users_collection, subscriptions_collection>>

\* start_bot without its subscription check
start_bot_ungated(token) ==
    LET current_user == get_current_user(token)
    IN  /\ current_user # None
        /\ Idle
        /\ UNCHANGED nonApiVars
        /\ call' = [op |-> "start_bot", token |-> token]
        /\ bot_configs_collection' = update_one(bot_configs_collection,
               current_user.user_id,
               [is_active |-> TRUE, started_at |-> now], TRUE)
        /\ resp' = Rsp(200, "Bot started successfully")
        /\ UNCHANGED <<users_collection, subscriptions_collection, now>>

\* start_bot refusing a subscription whose expires_at has passed
start_bot_checks_expiry(token) ==
    LET current_user == get_current_user(token)
        subscription == find_one(subscriptions_collection, "user_id",
                                 current_user.user_id)
    IN  /\ current_user # None
        /\ Idle
        /\ UNCHANGED nonApiVars
        /\ call' = [op |-> "start_bot", token |-> token]
        /\ IF \/ ~SubscriptionActive(current_user.user_id)
              \/ subscription.expires_at < now
           THEN /\ resp' = Rsp(403, "Active subscription required")
                /\ UNCHANGED bot_configs_collection
           ELSE /\ bot_configs_collection' = update_one(bot_configs_collection,
                       current_user.user_id,
                       [is_active |-> TRUE, started_at |-> now], TRUE)
                /\ resp' = Rsp(200, "Bot started successfully")
        /\ UNCHANGED <<users_collection, subscriptions_collection, now>>

\* POST /api/bot/start
start_bot(token) ==
    LET current_user == get_current_user(token)
    IN  /\ current_user # None
        /\ Idle
        /\ UNCHANGED nonApiVars
        /\ call' = [op |-> "start_bot", token |-> token]
        /\ IF ~SubscriptionActive(current_user.user_id)
           THEN /\ resp' = Rsp(403, "Active subscription required")
                /\ UNCHANGED <<bot_configs_collection, now>>
           ELSE \E t \in now..MaxTime :
                  /\ bot_configs_collection' = update_one(bot_configs_collection,
                         current_user.user_id,
                         [is_active |-> TRUE, started_at |-> t], TRUE)
                  /\ now' = t
                  /\ resp' = Rsp(200, "Bot started successfully")
        /\ UNCHANGED <<users_collection, subscriptions_collection>>

\* stop_bot recording stopped_at without clearing is_active
stop_bot_keeps_active(token) ==
    LET current_user == get_current_user(token)
    IN  /\ current_user # None
        /\ Idle
        /\ UNCHANGED nonApiVars
        /\ call' = [op |-> "stop_bot", token |-> token]
        /\ bot_configs_collection' = update_one(bot_configs_collection,
               current_user.user_id, [stopped_at |-> now], FALSE)
        /\ resp' = Rsp(200, "Bot stopped successfully")
        /\ UNCHANGED <<users_collection, subscriptions_collection, now>>

\* POST /api/bot/stop
stop_bot(token) ==
    LET current_user == get_current_user(token)
    IN  /\ current_user # None
        /\ Idle
        /\ UNCHANGED nonApiVars
        /\ call' = [op |-> "stop_bot", token |-> token]
        /\ \E t \in now..MaxTime :
              /\ bot_configs_collection' = update_one(bot_configs_collection,
                     current_user.user_id,
                     [is_active |-> FALSE, stopped_at |-> t], FALSE)
              /\ now' = t
        /\ resp' = Rsp(200, "Bot stopped successfully")
        /\ UNCHANGED <<users_collection, subscriptions_collection>>

\* one entry of the admin listing: the user without the password, with the subscription
UserListing(user) ==
    LET subscription == find_one(subscriptions_collection, "user_id", user.user_id)
    IN  [k \in (DOMAIN user \ {"password"}) \cup {"subscription"} |->
           IF k = "subscription"
           THEN IF subscription # None THEN subscription ELSE [is_active |-> FALSE]
           ELSE user[k]]

\* GET /api/admin/users
get_users(token) ==
    LET current_user == get_current_user(token)
    IN  /\ current_user # None
        /\ Idle
        /\ UNCHANGED nonApiVars
        /\ call' = [op |-> "get_users", token |-> token]
        /\ IF ~Get(current_user, "is_admin", FALSE)
           THEN resp' = Rsp(403, "Admin access required")
           ELSE resp' = RspBody({UserListing(user) : user \in users_collection})
        /\ UNCHANGED <<users_collection, subscriptions_collection,
                       bot_configs_collection, now>>

\* PUT /api/admin/subscription/{user_id}?days=
update_subscription(token, user_id, days) ==
    LET current_user == get_current_user(token)
    IN  /\ current_user # None
        /\ Idle
        /\ UNCHANGED nonApiVars
        /\ call' = [op |-> "update_subscription", token |-> token,
                    user_id |-> user_id, days |-> days]
        /\ IF ~Get(current_user, "is_admin", FALSE)
           THEN /\ resp' = Rsp(403, "Admin access required")
                /\ UNCHANGED <<subscriptions_collection, now>>
           ELSE \E t1 \in now..MaxTime : \E t2 \in t1..MaxTime :
                  /\ subscriptions_collection' = update_one(subscriptions_collection,
                         user_id,
                         [is_active |-> TRUE, expires_at |-> t1 + days,
                          updated_at |-> t2], TRUE)
                  /\ now' = t2
                  /\ resp' = Rsp(200, "Subscription updated")
        /\ UNCHANGED <<users_collection, bot_configs_collection>>

ApiNext ==
    \/ respond
    \/ unauthorized
    \/ \E email \in Emails, password \in Passwords : register(email, password)
    \/ \E email \in Emails, password \in Passwords : login(email, password)
    \/ \E token \in Tokens : get_profile(token)
    \/ \E token \in Tokens, api_key \in ApiKeys : update_api_key(token, api_key)
    \/ \E token \in Tokens : get_bot_config(token)
    \/ \E token \in Tokens, config \in ConfigSet : update_bot_config(token, config)
    \/ \E token \in Tokens : start_bot(token)
    \/ \E token \in Tokens : stop_bot(token)
    \/ \E token \in Tokens : get_users(token)
    \/ \E token \in Tokens, user_id \in Tokens, days \in DaySet :
          update_subscription(token, user_id, days)


----------------------------------------------------------------------------
(* class ConnectionManager and the websocket endpoint.  Tasks of the event  *)
(* loop interleave at their awaits and nowhere else.                        *)

Conns == 1..MaxConns

Range(seq) == {seq[i] : i \in 1..Len(seq)}

\* list.remove(x): the first occurrence
ListRemove(seq, x) ==
    LET i == CHOOSE j \in 1..Len(seq) :
                 seq[j] = x /\ \A k \in 1..(j - 1) : seq[k] # x
    IN  SubSeq(seq, 1, i - 1) \o SubSeq(seq, i + 1, Len(seq))

\* ConnectionManager.disconnect
disconnect(seq, websocket) ==
    IF websocket \in Range(seq) THEN ListRemove(seq, websocket) ELSE seq

\* what awaited send_text raises on a transport the peer closed: starlette
\* raises WebSocketDisconnect or passes on the server's own error
SendErrors == {"WebSocketDisconnect", "RuntimeError"}

WsInit ==
    /\ active_connections = <<>>
    /\ transport = [c \in Conns |-> "none"]
    /\ wpc = [c \in Conns |-> "new"]
    /\ bpc = "idle"
    /\ bIdx = 0
    /\ bCur = 0
    /\ bStart = {}
    /\ bRemoved = {}
    /\ bDelivered = {}
    /\ bFailed = {}

\* websocket_endpoint up to its first await of a send: manager.connect accepts
\* and appends, the loop builds a snapshot and sends it
ws_connect(c) ==
    /\ wpc[c] = "new"
    /\ transport' = [transport EXCEPT ![c] = "open"]
    /\ active_connections' = Append(active_connections, c)
    /\ wpc' = [wpc EXCEPT ![c] = "sending"]
    /\ UNCHANGED <<bpc, bIdx, bCur, bStart, bRemoved, bDelivered, bFailed>>
    /\ UNCHANGED nonWsVars

\* the peer goes away
peer_close(c) ==
    /\ transport[c] = "open"
    /\ transport' = [transport EXCEPT ![c] = "closed"]
    /\ UNCHANGED <<active_connections, wpc, bpc, bIdx, bCur, bStart, bRemoved,
                   bDelivered, bFailed>>
    /\ UNCHANGED nonWsVars

\* websocket_endpoint: send_personal_message returns and the task sleeps
ws_sent(c) ==
    /\ wpc[c] = "sending"
    /\ transport[c] = "open"
    /\ wpc' = [wpc EXCEPT ![c] = "sleeping"]
    /\ UNCHANGED <<active_connections, transport, bpc, bIdx, bCur, bStart, bRemoved,
                   bDelivered, bFailed>>
    /\ UNCHANGED nonWsVars

\* websocket_endpoint: send_personal_message raises; only WebSocketDisconnect
\* is caught, and its handler calls manager.disconnect
ws_send_raises(c, error) ==
    /\ wpc[c] = "sending"
    /\ transport[c] = "closed"
    /\ IF error = "WebSocketDisconnect"
       THEN /\ active_connections' = disconnect(active_connections, c)
            /\ bRemoved' = IF bpc = "sending" /\ c \in Range(active_connections)
                           THEN bRemoved \cup {c} ELSE bRemoved
            /\ wpc' = [wpc EXCEPT ![c] = "disconnected"]
       ELSE /\ wpc' = [wpc EXCEPT ![c] = "raised"]
            /\ UNCHANGED <<active_connections, bRemoved>>
    /\ UNCHANGED <<transport, bpc, bIdx, bCur, bStart, bDelivered, bFailed>>
    /\ UNCHANGED nonWsVars

\* websocket_endpoint: asyncio.sleep(5) returns, the loop builds the next
\* snapshot and sends it
ws_wake(c) ==
    /\ wpc[c] = "sleeping"
    /\ wpc' = [wpc EXCEPT ![c] = "sending"]
    /\ UNCHANGED <<active_connections, transport, bpc, bIdx, bCur, bStart, bRemoved,
                   bDelivered, bFailed>>
    /\ UNCHANGED nonWsVars

\* the for loop of broadcast asks its list iterator for the next connection:
\* the iterator reads the list itself, at its own index
broadcast_next(seq, idx) ==
    IF idx < Len(seq)
    THEN /\ bCur' = seq[idx + 1]
         /\ bIdx' = idx + 1
         /\ bpc' = "sending"
    ELSE /\ bCur' = 0
         /\ bIdx' = idx
         /\ bpc' = "done"

\* ConnectionManager.broadcast is called and runs to its first await
broadcast ==
    /\ bpc \in {"idle", "done"}
    /\ bStart' = Range(active_connections)
    /\ bRemoved' = {}
    /\ bDelivered' = {}
    /\ bFailed' = {}
    /\ broadcast_next(active_connections, 0)
    /\ UNCHANGED <<active_connections, transport, wpc>>
    /\ UNCHANGED nonWsVars

\* what broadcast does when its send_text raises: except: pass
broadcast_except(seq, websocket) == seq

\* broadcast: the awaited send_text returns or raises, and the loop goes on to
\* its next await or to its end
broadcast_resume ==
    /\ bpc = "sending"
    /\ IF transport[bCur] = "open"
       THEN /\ bDelivered' = bDelivered \cup {bCur}
            /\ UNCHANGED <<bFailed, active_connections>>
       ELSE /\ bFailed' = bFailed \cup {bCur}
            /\ active_connections' = broadcast_except(active_connections, bCur)
            /\ UNCHANGED bDelivered
    /\ broadcast_next(active_connections', bIdx)
    /\ UNCHANGED <<transport, wpc, bStart, bRemoved>>
    /\ UNCHANGED nonWsVars

WsNext ==
    \/ \E c \in Conns : ws_connect(c)
    \/ \E c \in Conns : peer_close(c)
    \/ \E c \in Conns : ws_sent(c)
    \/ \E c \in Conns, error \in SendErrors : ws_send_raises(c, error)
    \/ \E c \in Conns : ws_wake(c)
    \/ broadcast
    \/ broadcast_resume


----------------------------------------------------------------------------
(* The EMA crossover signal and the mock coin snapshot *)

\* get_trading_signal comparing with >= instead of >
get_trading_signal_geq(ema9, ema21, prev_ema9, prev_ema21) ==
    LET current_signal == IF ema9 >= ema21 THEN "BUY" ELSE "SELL"
        prev_signal == IF prev_ema9 >= prev_ema21 THEN "BUY" ELSE "SELL"
    IN  IF current_signal = "BUY" /\ prev_signal = "SELL" THEN "STRONG_BUY"
        ELSE IF current_signal = "SELL" /\ prev_signal = "BUY" THEN "STRONG_SELL"
        ELSE current_signal

\* get_trading_signal(ema9, ema21, prev_ema9, prev_ema21)
get_trading_signal(ema9, ema21, prev_ema9, prev_ema21) ==
    LET current_signal == IF ema9 > ema21 THEN "BUY" ELSE "SELL"
        prev_signal == IF prev_ema9 > prev_ema21 THEN "BUY" ELSE "SELL"
    IN  IF current_signal = "BUY" /\ prev_signal = "SELL" THEN "STRONG_BUY"
        ELSE IF current_signal = "SELL" /\ prev_signal = "BUY" THEN "STRONG_SELL"
        ELSE current_signal

EmaValues == 0..MaxEma

SigInit ==
    /\ sigIn \in [ema9 : EmaValues, ema21 : EmaValues,
                  prev_ema9 : EmaValues, prev_ema21 : EmaValues]
    /\ sigOut = "none"

\* a call of get_trading_signal
trading_signal_call ==
    /\ sigOut = "none"
    /\ sigOut' = get_trading_signal(sigIn.ema9, sigIn.ema21,
                                    sigIn.prev_ema9, sigIn.prev_ema21)
    /\ UNCHANGED sigIn
    /\ UNCHANGED nonSigVars

SigNext == trading_signal_call

MOCK_COINS == <<"BTCUSDT", "ETHUSDT", "BNBUSDT", "ADAUSDT", "SOLUSDT",
                "XRPUSDT", "DOTUSDT", "DOGEUSDT", "AVAXUSDT", "LUNAUSDT">>

\* what the random.uniform calls of one loop round return: the price, the 24h
\* change and volume, and the two EMA factors in hundredths
\* (uniform(0.98, 1.02) and uniform(0.97, 1.03))
Draws == [base_price : {100}, change_24h : {0 - 5}, volume_24h : {1000000},
          f9 : {98, 102}, f21 : {100}]

DrawSeqs == [1..Len(MOCK_COINS) -> Draws]

\* a CoinData built without signal=, which the model defaults to None
CoinData_no_signal(symbol, draw) ==
    [symbol |-> symbol,
     price |-> draw.base_price * 100,
     change_24h |-> draw.change_24h,
     volume_24h |-> draw.volume_24h,
     ema9 |-> draw.base_price * draw.f9,
     ema21 |-> draw.base_price * draw.f21,
     signal |-> NoneStr]

\* one CoinData of get_mock_coin_data; prices are kept in hundredths
CoinData(symbol, draw) ==
    LET ema9 == draw.base_price * draw.f9
        ema21 == draw.base_price * draw.f21
    IN  [symbol |-> symbol,
         price |-> draw.base_price * 100,
         change_24h |-> draw.change_24h,
         volume_24h |-> draw.volume_24h,
         ema9 |-> ema9,
         ema21 |-> ema21,
         signal |-> IF ema9 > ema21 THEN "BUY" ELSE "SELL"]

\* get_mock_coin_data(): the loop over MOCK_COINS appending one CoinData each
RECURSIVE mock_coins_loop(_, _, _)
mock_coins_loop(coins, i, draws) ==
    IF i > Len(MOCK_COINS) THEN coins
    ELSE mock_coins_loop(Append(coins, CoinData(MOCK_COINS[i], draws[i])), i + 1, draws)

\* get_mock_coin_data putting each CoinData at the front of the list
get_mock_coin_data_prepending(draws) ==
    LET coins == mock_coins_loop(<<>>, 1, draws)
    IN  [i \in 1..Len(coins) |-> coins[Len(coins) + 1 - i]]

get_mock_coin_data(draws) == mock_coins_loop(<<>>, 1, draws)

NoWire == [type |-> "none"]

CoinInit == wire = NoWire

\* GET /api/coins
get_coins ==
    /\ wire = NoWire
    /\ \E draws \in DrawSeqs :
         wire' = [type |-> "coins", to |-> 0, coins |-> get_mock_coin_data(draws)]
    /\ UNCHANGED nonCoinVars

\* one round of the push loop of websocket_endpoint for websocket c: the
\* message is the list of coin.dict() for coin in get_mock_coin_data()
coins_update(c) ==
    /\ wire = NoWire
    /\ \E draws \in DrawSeqs :
         LET coins_data == get_mock_coin_data(draws)
         IN  wire' = [type |-> "coins_update", to |-> c,
                      coins |-> [i \in 1..Len(coins_data) |-> coins_data[i]]]
    /\ UNCHANGED nonCoinVars

\* the snapshot reaches its client
wire_delivered ==
    /\ wire # NoWire
    /\ wire' = NoWire
    /\ UNCHANGED nonCoinVars

CoinNext ==
    \/ get_coins
    \/ \E c \in Conns : coins_update(c)
    \/ wire_delivered

----------------------------------------------------------------------------
(* The stream of ticks one websocket client receives: a push every 5 seconds *)

\* the draws of a tick: the EMA factors of the first MaxVarying symbols vary,
\* the other symbols draw the same factors at every tick
TickDraws == {draws \in DrawSeqs :
                \A i \in (MaxVarying + 1)..Len(MOCK_COINS) : draws[i].f9 = 98}

TickInit == lastTick = [c \in Conns |-> <<>>]

\* one round of the push loop of websocket_endpoint for websocket c
coins_tick(c) ==
    /\ wire = NoWire
    /\ \E draws \in TickDraws :
         LET coins_data == get_mock_coin_data(draws)
         IN  wire' = [type |-> "coins_update", to |-> c,
                      coins |-> [i \in 1..Len(coins_data) |-> coins_data[i]]]
    /\ UNCHANGED lastTick
    /\ UNCHANGED nonTickVars

\* send_text returns: the client of websocket wire.to has the tick
tick_delivered ==
    /\ wire # NoWire
    /\ lastTick' = [lastTick EXCEPT ![wire.to] = wire.coins]
    /\ wire' = NoWire
    /\ UNCHANGED nonTickVars

TickNext ==
    \/ \E c \in Conns : coins_tick(c)
    \/ tick_delivered

----------------------------------------------------------------------------
(* calculate_ema.  An EMA value is an exact fraction num/den with den > 0;  *)
(* the rounding of the floating-point evaluation is not modelled.           *)

Frac(num, den) == [num |-> num, den |-> den]

FracEq(a, b) == a.num * b.den = b.num * a.den

RECURSIVE Pow(_, _)
Pow(base, exp) == IF exp = 0 THEN 1 ELSE base * Pow(base, exp - 1)

\* the weight ewm gives prices[j] in the mean at position k, scaled by
\* (span+1)^(k-1): (1-alpha)^(k-j) with alpha = 2/(span+1)
ewm_weight(span, k, j) == Pow(span - 1, k - j) * Pow(span + 1, j - 1)

\* the sum over positions 1..j of weight * value
RECURSIVE ewm_sum(_, _, _, _)
ewm_sum(values, span, k, j) ==
    IF j = 0 THEN 0
    ELSE ewm_weight(span, k, j) * values[j] + ewm_sum(values, span, k, j - 1)

\* pd.Series(prices).ewm(span=span).mean(): adjust=True and min_periods=0 are
\* the defaults, so every position holds the weighted mean of the prices so far
ewm_mean(prices, span) ==
    [k \in 1..Len(prices) |->
        Frac(ewm_sum(prices, span, k, k),
             ewm_sum([j \in 1..Len(prices) |-> 1], span, k, k))]

\* calculate_ema(prices, period)
calculate_ema(prices, period) ==
    IF Len(prices) < period
    THEN [k \in 1..Len(prices) |-> Frac(0, 1)]
    ELSE ewm_mean(prices, period)

Prices == 1..MaxPrice

PriceHistories == UNION {[1..n -> Prices] : n \in 1..MaxLen}

\* the periods of the fast and the slow EMA, and spans short enough for the
\* histories to reach
Periods == {1, 2, 3, 9, 21}

EmaInit ==
    /\ emaIn \in [prices : PriceHistories, period : Periods]
    /\ emaOut = <<>>

\* a call of calculate_ema
calculate_ema_call ==
    /\ emaOut = <<>>
    /\ emaOut' = calculate_ema(emaIn.prices, emaIn.period)
    /\ UNCHANGED emaIn
    /\ UNCHANGED nonEmaVars

EmaNext == calculate_ema_call

----------------------------------------------------------------------------
(* Specifications: each part of the program runs with the others at rest *)

\* the part of the state a specification leaves at rest
SigRest == sigIn = [ema9 |-> 0, ema21 |-> 0, prev_ema9 |-> 0, prev_ema21 |-> 0]
              /\ sigOut = "none"
EmaRest == emaIn = [prices |-> <<>>, period |-> 1] /\ emaOut = <<>>
ApiRest == ApiInit /\ users_collection = {}

InitApi == ApiInit /\ WsInit /\ CoinInit /\ SigRest /\ TickInit /\ EmaRest

SpecApi == InitApi /\ [][ApiNext]_vars

InitWs == ApiRest /\ WsInit /\ CoinInit /\ SigRest /\ TickInit /\ EmaRest

SpecWs == InitWs /\ [][WsNext]_vars

InitCoins == ApiRest /\ WsInit /\ CoinInit /\ SigRest /\ TickInit /\ EmaRest

SpecCoins == InitCoins /\ [][CoinNext]_vars

InitSignal == ApiRest /\ WsInit /\ CoinInit /\ SigInit /\ TickInit /\ EmaRest

SpecSignal == InitSignal /\ [][SigNext]_vars

InitTicks == ApiRest /\ WsInit /\ CoinInit /\ SigRest /\ TickInit /\ EmaRest

SpecTicks == InitTicks /\ [][TickNext]_vars

InitEma == ApiRest /\ WsInit /\ CoinInit /\ SigRest /\ TickInit /\ EmaInit

SpecEma == InitEma /\ [][EmaNext]_vars

\* the handlers over a store that starts empty: nobody seeded an admin
InitNoAdmin == ApiRest /\ WsInit /\ CoinInit /\ SigRest /\ TickInit /\ EmaRest

SpecNoAdmin == InitNoAdmin /\ [][ApiNext]_vars

----------------------------------------------------------------------------
(* Claims about the HTTP handlers, checked under SpecApi *)

\* the user_ids register can hand out: one per e-mail address at most
UserIds == 1..Cardinality(Emails)

\* the stored bot configuration of uid has is_active = True
BotActive(uid) ==
    LET config == find_one(bot_configs_collection, "user_id", uid)
    IN  config # None /\ Get(config, "is_active", FALSE)

\* C1: a start_bot call by a user whose subscription document is missing or
\* inactive is answered 403 'Active subscription required' and leaves
\* bot_configs untouched; and a bot configuration turns is_active = True only
\* in a start_bot step of its owner taken while the owner's subscription is
\* active.
C1_StartBotGate ==
    /\ [][(call'.op = "start_bot" /\ ~SubscriptionActive(call'.token))
            => /\ resp' = Rsp(403, "Active subscription required")
               /\ bot_configs_collection' = bot_configs_collection]_vars
    /\ [][\A uid \in UserIds :
            (~BotActive(uid) /\ BotActive(uid)')
            => /\ call'.op = "start_bot" /\ call'.token = uid
               /\ SubscriptionActive(uid)]_vars

\* a start_bot call was refused for a user who has a stored configuration,
\* while another user's bot runs
C1_Witness ==
    /\ call.op = "start_bot"
    /\ resp.status = 403
    /\ find_one(bot_configs_collection, "user_id", call.token) # None
    /\ \E uid \in UserIds : BotActive(uid)

----------------------------------------------------------------------------
(* Claims about get_trading_signal, checked under SpecSignal *)

\* C2: get_trading_signal returns STRONG_BUY exactly when ema9 > ema21 and not
\* prev_ema9 > prev_ema21, STRONG_SELL exactly when not ema9 > ema21 and
\* prev_ema9 > prev_ema21, and otherwise BUY if ema9 > ema21, else SELL; equal
\* EMAs count as SELL.
C2_SignalTable ==
    sigOut # "none" =>
       LET up == sigIn.ema9 > sigIn.ema21
           wasUp == sigIn.prev_ema9 > sigIn.prev_ema21
       IN  /\ (sigOut = "STRONG_BUY") <=> (up /\ ~wasUp)
           /\ (sigOut = "STRONG_SELL") <=> (~up /\ wasUp)
           /\ (up /\ wasUp) => sigOut = "BUY"
           /\ (~up /\ ~wasUp) => sigOut = "SELL"
           /\ sigIn.ema9 = sigIn.ema21 => sigOut \in {"SELL", "STRONG_SELL"}

\* the EMAs are equal now and the fast one was above before: STRONG_SELL
C2_Witness ==
    /\ sigOut = "STRONG_SELL"
    /\ sigIn.ema9 = sigIn.ema21
    /\ sigIn.prev_ema9 > sigIn.prev_ema21

----------------------------------------------------------------------------
(* Claims about ConnectionManager, checked under SpecWs *)

\* C3: when broadcast ran over two or more registered subscribers and a send to
\* one of them failed, every other subscriber registered at the start received
\* the message; stated here for the subscribers that are still registered and
\* reachable when broadcast returns.
C3_BroadcastIsolation ==
    (bpc = "done" /\ Cardinality(bStart) >= 2 /\ bFailed # {})
       => \A c \in bStart \ bFailed :
             (c \in Range(active_connections) /\ transport[c] = "open")
                => c \in bDelivered

\* the isolation the try/except of broadcast does give: with no connection
\* removed while broadcast runs, every subscriber registered at the start is
\* sent to, whatever the other sends did
BroadcastIsolationUndisturbed ==
    (bpc = "done" /\ bRemoved = {}) => bStart \subseteq bDelivered \cup bFailed

\* C4: a subscriber whose send failed, in broadcast or in the push loop of
\* websocket_endpoint, is not in active_connections once the broadcast or the
\* handler has finished.
C4_FailedSenderDeregistered ==
    /\ bpc = "done" => bFailed \cap Range(active_connections) = {}
    /\ \A c \in Conns :
          wpc[c] \in {"disconnected", "raised"} => c \notin Range(active_connections)

\* C5: connect and disconnect may interleave with a broadcast in flight: every
\* connection that stays registered for the whole broadcast receives the message.
C5_RegistryMutationSafe ==
    bpc = "done"
       => \A c \in bStart \ bRemoved : transport[c] = "open" => c \in bDelivered

----------------------------------------------------------------------------
(* Claims about the coin snapshots, checked under SpecCoins *)

Signals == {"BUY", "SELL", "STRONG_BUY", "STRONG_SELL"}

\* C6: every record of every snapshot, the response of get_coins and each
\* coins_update message alike, has a signal field holding BUY, SELL,
\* STRONG_BUY or STRONG_SELL.
C6_SignalField ==
    wire # NoWire
       => \A i \in 1..Len(wire.coins) :
             /\ "signal" \in DOMAIN wire.coins[i]
             /\ wire.coins[i].signal \in Signals

\* a coins_update message carrying both a BUY and a SELL record
C6_Witness ==
    /\ wire.type = "coins_update"
    /\ \E i, j \in 1..Len(wire.coins) :
          wire.coins[i].signal = "BUY" /\ wire.coins[j].signal = "SELL"

\* C7: every snapshot holds exactly one record per symbol of MOCK_COINS, the
\* i-th record being that of the i-th configured symbol, for get_coins and for
\* every websocket.
C7_TrackingOrder ==
    wire # NoWire
       => /\ Len(wire.coins) = Len(MOCK_COINS)
          /\ \A i \in 1..Len(MOCK_COINS) : wire.coins[i].symbol = MOCK_COINS[i]

\* a coins_update message for a websocket whose records differ in signal, so
\* that no ordering by content would leave them in place
C7_Witness ==
    /\ wire.type = "coins_update"
    /\ wire.to \in Conns
    /\ wire.coins[1].signal = "SELL"
    /\ wire.coins[Len(MOCK_COINS)].signal = "BUY"
    /\ wire.coins[Len(MOCK_COINS)].symbol = "LUNAUSDT"

----------------------------------------------------------------------------
(* Claims about the HTTP handlers, continued *)

\* the six configuration fields of a GET /api/bot/config body
SixFields(body) == [k \in ConfigFields |-> body[k]]

\* C8: after update_bot_config(c) the body get_bot_config returns to the same
\* user carries the six fields of c, whether or not a document existed; no
\* step other than the user's own update_bot_config changes those six fields;
\* get_bot_config answers with that body; and a user with no stored
\* configuration gets the defaults (BTCUSDT, 1m, 1, 2.0, 1.0, 10.0).
C8_ConfigRoundTrip ==
    /\ [][\A uid \in UserIds :
            (call'.op = "update_bot_config" /\ call'.token = uid)
            => /\ resp'.status = 200
               /\ SixFields(bot_config_body(uid))' = call'.config]_vars
    /\ [][\A uid \in UserIds :
            (call'.op # "update_bot_config" \/ call'.token # uid)
            => SixFields(bot_config_body(uid))' = SixFields(bot_config_body(uid))]_vars
    /\ [][call'.op = "get_bot_config"
            => /\ resp'.status = 200
               /\ SixFields(resp'.body) = SixFields(bot_config_body(call'.token))
               /\ (find_one(bot_configs_collection, "user_id", call'.token) = None
                     => resp'.body = [symbol |-> "BTCUSDT", timeframe |-> "1m",
                                      leverage |-> 1, take_profit |-> 20,
                                      stop_loss |-> 10, position_size |-> 100])]_vars

\* get_bot_config returned a configuration other than the defaults
C8_Witness ==
    /\ call.op = "get_bot_config"
    /\ resp.status = 200
    /\ SixFields(resp.body) # BotConfig
    /\ SixFields(resp.body) \in ConfigSet

\* C9: register with an e-mail of a stored user is answered 400 'User already
\* exists' and changes no collection; whoever could log in with that e-mail
\* before still can, and some password does log in.
C9_DuplicateRegister ==
    [][\A email \in Emails :
         (call'.op = "register" /\ call'.email = email
            /\ find(users_collection, "email", email) # {})
         => /\ resp' = Rsp(400, "User already exists")
            /\ users_collection' = users_collection
            /\ subscriptions_collection' = subscriptions_collection
            /\ bot_configs_collection' = bot_configs_collection
            /\ \A password \in Passwords :
                 login_response(email, password).status = 200
                 => login_response(email, password)'.status = 200
            /\ \E password \in Passwords :
                 login_response(email, password)'.status = 200]_vars

\* a registration was refused for the e-mail of a user who registered earlier,
\* with a password other than that user's
C9_Witness ==
    /\ call.op = "register"
    /\ resp.status = 400
    /\ \E doc \in users_collection :
         /\ doc.email = call.email
         /\ ~doc.is_admin
         /\ ~verify_password(call.password, doc.password)

\* GET /api/bot/config reports is_active = True to uid
ReportsActive(uid) ==
    /\ "is_active" \in DOMAIN bot_config_body(uid)
    /\ bot_config_body(uid).is_active

\* C10: stop_bot answers 200 to every authenticated user, with or without a
\* subscription or a stored configuration, and after it get_bot_config does
\* not report is_active = True; the report turns True only in a successful
\* start_bot step of the same user.
C10_StopBot ==
    /\ [][\A uid \in UserIds :
            (call'.op = "stop_bot" /\ call'.token = uid)
            => /\ resp' = Rsp(200, "Bot stopped successfully")
               /\ ~ReportsActive(uid)']_vars
    /\ [][\A uid \in UserIds :
            (~ReportsActive(uid) /\ ReportsActive(uid)')
            => /\ call'.op = "start_bot" /\ call'.token = uid
               /\ resp'.status = 200]_vars

\* stop_bot stopped a bot that had been started
C10_Witness ==
    /\ call.op = "stop_bot"
    /\ resp.status = 200
    /\ LET config == find_one(bot_configs_collection, "user_id", call.token)
       IN  /\ config # None
           /\ "started_at" \in DOMAIN config
           /\ ~config.is_active

----------------------------------------------------------------------------
(* Claims about the tick stream, checked under SpecTicks *)

\* C11: across consecutive ticks delivered for a symbol, when the fast EMA goes
\* from <= the slow EMA at tick k-1 to > the slow EMA at tick k, the record of
\* tick k carries STRONG_BUY, and for the downward transition STRONG_SELL.
\* lastTick holds tick k-1 as the client received it, wire holds tick k.
C11_Crossover ==
    (wire.type = "coins_update" /\ lastTick[wire.to] # <<>>) =>
        \A i \in 1..Len(MOCK_COINS) :
            LET prev == lastTick[wire.to][i]
                cur == wire.coins[i]
            IN  /\ (prev.ema9 <= prev.ema21 /\ cur.ema9 > cur.ema21)
                      => cur.signal = "STRONG_BUY"
                /\ (prev.ema9 > prev.ema21 /\ cur.ema9 <= cur.ema21)
                      => cur.signal = "STRONG_SELL"

----------------------------------------------------------------------------
(* Claims about calculate_ema, checked under SpecEma *)

\* C12: EMA seeding: for a price history of length one, <<p>>, the fast
\* (period 9) and the slow (period 21) EMA both equal p.
C12_EmaSeeding ==
    (emaOut # <<>> /\ Len(emaIn.prices) = 1 /\ emaIn.period \in {9, 21}) =>
        FracEq(emaOut[1], Frac(emaIn.prices[1], 1))

\* C13: EMA recurrence: every element of calculate_ema(prices, s) after the
\* first equals alpha * price + (1 - alpha) * its predecessor, alpha = 2/(s+1),
\* that is (2 * price + (s - 1) * predecessor) / (s + 1).
C13_EmaRecurrence ==
    emaOut # <<>> =>
        \A k \in 2..Len(emaOut) :
            LET s == emaIn.period
                ema1 == emaOut[k - 1]
                ema2 == emaOut[k]
                p2 == emaIn.prices[k]
            IN  FracEq(ema2, Frac(2 * p2 * ema1.den + (s - 1) * ema1.num,
                                  (s + 1) * ema1.den))

----------------------------------------------------------------------------
(* Claims about a store without an admin, checked under SpecNoAdmin *)

\* C14: starting from a store that contains no admin user, after any sequence
\* of API calls no user document has is_admin = True; every admin call is
\* rejected with 403, no subscription is active and no bot configuration has
\* is_active = True.
C14_NoAdminEver ==
    /\ \A user \in users_collection : ~Get(user, "is_admin", FALSE)
    /\ call.op \in {"get_users", "update_subscription"} => resp.status = 403
    /\ \A subscription \in subscriptions_collection :
          ~Get(subscription, "is_active", FALSE)
    /\ \A config \in bot_configs_collection : ~Get(config, "is_active", FALSE)

\* every address is registered, a bot configuration is stored, and a
\* registered user's admin call has just been answered
C14_Witness ==
    /\ Cardinality(users_collection) = Cardinality(Emails)
    /\ bot_configs_collection # {}
    /\ call.op = "update_subscription"
    /\ resp.status = 403

----------------------------------------------------------------------------
(* Further claims about the HTTP handlers, checked under SpecApi *)

\* C15: a subscription's is_active flag is monotone: once it is True no
\* operation sets it back to False, and start_bot by a user whose subscription
\* is active succeeds, whatever expires_at is.
C15_SubscriptionMonotone ==
    /\ [][\A uid \in UserIds :
            SubscriptionActive(uid) => SubscriptionActive(uid)']_vars
    /\ [][\A uid \in UserIds :
            (SubscriptionActive(uid) /\ call'.op = "start_bot" /\ call'.token = uid)
                => (resp'.status = 200 /\ BotActive(uid)')]_vars

\* start_bot has just succeeded for a user whose subscription was granted for
\* days <= 0 and expired before the call
C15_Witness ==
    /\ call.op = "start_bot"
    /\ resp.status = 200
    /\ \E subscription \in subscriptions_collection :
          /\ subscription.user_id = call.token
          /\ subscription.is_active
          /\ subscription.expires_at < now

\* the stored bot configuration of uid, and one field of it: the set of its
\* value, empty when the document or the field is absent
BotDoc(uid) == find_one(bot_configs_collection, "user_id", uid)

BotField(uid, key) ==
    IF BotDoc(uid) = None \/ key \notin DOMAIN BotDoc(uid) THEN {}
    ELSE {BotDoc(uid)[key]}

\* the fields start_bot and stop_bot own
RunFields == {"is_active", "started_at", "stopped_at"}

\* C16: frame of the bot operations: update_bot_config leaves is_active,
\* started_at and stopped_at of the caller's document unchanged (a running bot
\* stays running); start_bot and stop_bot leave the six configuration fields
\* and updated_at unchanged and change no timestamp but their own; none of the
\* three touches another user's document, a user or a subscription.
C16_BotFrame ==
    /\ [][\A uid \in UserIds :
            (call'.op = "update_bot_config" /\ call'.token = uid) =>
                /\ \A key \in RunFields : BotField(uid, key)' = BotField(uid, key)
                /\ BotActive(uid) => BotActive(uid)'
                /\ \A other \in UserIds \ {uid} : BotDoc(other)' = BotDoc(other)
                /\ UNCHANGED <<users_collection, subscriptions_collection>>]_vars
    /\ [][\A uid \in UserIds :
            (call'.op \in {"start_bot", "stop_bot"} /\ call'.token = uid) =>
                /\ \A key \in ConfigFields \cup {"updated_at"} :
                      BotField(uid, key)' = BotField(uid, key)
                /\ call'.op = "start_bot" =>
                      BotField(uid, "stopped_at")' = BotField(uid, "stopped_at")
                /\ call'.op = "stop_bot" =>
                      BotField(uid, "started_at")' = BotField(uid, "started_at")
                /\ \A other \in UserIds \ {uid} : BotDoc(other)' = BotDoc(other)
                /\ UNCHANGED <<users_collection, subscriptions_collection>>]_vars

\* a configuration update has just been answered for a user whose bot is
\* running, while another user has a stored configuration too
C16_Witness ==
    /\ call.op = "update_bot_config"
    /\ BotActive(call.token)
    /\ BotField(call.token, "symbol") = {"ETHUSDT"}
    /\ \E doc \in bot_configs_collection : doc.user_id # call.token

\* C17: under any interleaving of register requests handled by one server
\* process, no two stored users share an e-mail address, every user register
\* stored (is_admin False) has exactly one subscription document, and the
\* subscription register creates has is_active = False.
C17_RegisterUnique ==
    /\ [](\A u1, u2 \in users_collection : u1.email = u2.email => u1 = u2)
    /\ [](\A user \in users_collection :
            ~user.is_admin =>
                Cardinality(find(subscriptions_collection, "user_id",
                                 user.user_id)) = 1)
    /\ [][(call'.op = "register" /\ resp'.status = 200) =>
             /\ Cardinality(users_collection') = Cardinality(users_collection) + 1
             /\ \E subscription \in subscriptions_collection' :
                   /\ subscriptions_collection' =
                         subscriptions_collection \cup {subscription}
                   /\ subscription \notin subscriptions_collection
                   /\ subscription.user_id = resp'.body.user_id
                   /\ subscription.is_active = FALSE]_vars

\* both addresses were registered through register, and the second
\* registration has just been answered
C17_Witness ==
    /\ Cardinality(users_collection) = Cardinality(Emails)
    /\ \A user \in users_collection : ~user.is_admin
    /\ call.op = "register"
    /\ resp.status = 200

====
